---- MODULE Spec2Model ----
(***************************************************************************)
(* A model of nwpu_transcript: the term normalisers and the two table      *)
(* extractors of parser.py, the template writer of excel.py and the        *)
(* command line driver of cli.py.                                          *)
(*                                                                         *)
(* Text that the code only moves around (cell values handed to the writer, *)
(* archive payloads) is a TLA+ string.  Text that the code inspects        *)
(* (strip, startswith, "in", regular expressions) is a sequence of         *)
(* one-character strings.  The Chinese characters of the source are        *)
(* written in pinyin, since the module is ASCII:                           *)
(*   kechengming = U+8BFE U+7A0B U+540D, fenshu, xuefen, xueshi,           *)
(*   xueshidanwei, kechengleibie, xueqi: the seven column keys;            *)
(*   chun, xia, qiu, dong: the four season characters.                     *)
(***************************************************************************)
EXTENDS Integers, Sequences, FiniteSets, TLC

VARIABLES
    \* ---- excel.py: write_to_template and its callees
    template,     \* the archive at template_path: a sequence of entries
    records,      \* the record list handed to write_to_template
    wpc,          \* position inside write_to_template
    outFile,      \* the file at output_path
    tmpFile,      \* the NamedTemporaryFile of _replace_zip_entries
    rendered,     \* (sheet_xml, shared_strings_xml) returned by _render_sheet
    infos,        \* _replace_zip_entries: existing_zip.infolist()
    data,         \* _replace_zip_entries: the dict data, in insertion order
    wi,           \* _replace_zip_entries: position of "for info in infos"
    werr,         \* the exception that left write_to_template, or "none"
    \* ---- cli.py: main
    args,         \* the command line and the files it names
    cpc,          \* position inside main
    tasks,        \* main: the list tasks
    ti,           \* main: position of "for parser_func, pdf_path, output_path in tasks"
    outputs,      \* what main has put at --output-chinese and --output-english
    cerr,         \* the exception that left main, or "none"
    \* ---- parser.py: the term normalisers
    termLang,     \* which of the two conversions is applied
    termIn,       \* its argument
    termOut,      \* its result
    tpc,          \* "call" before the conversion, "ret" after it
    \* ---- parser.py: parse_chinese
    table,        \* the grid extract_table returned
    zrow,         \* position of "for row in table"
    zseg,         \* position of "for indices, bucket in zip(segments, ...)"
    left_records,
    right_records,
    zresult,      \* the list parse_chinese returns
    zpc,
    \* ---- parser.py: parse_english
    pages,        \* per page, the grids extract_tables returned
    epage,        \* position of "for page in pdf.pages"
    etable,       \* position of "for table in tables"
    erow,         \* position of "for row in table[header_idx + 1:]"
    positions,    \* (left_positions, right_positions)
    left_bucket,
    right_bucket,
    erecords,     \* the list parse_english builds
    epc

writerVars == <<template, records, wpc, outFile, tmpFile, rendered, infos, data, wi, werr>>
cliVars == <<args, cpc, tasks, ti, outputs, cerr>>
termVars == <<termLang, termIn, termOut, tpc>>
zhVars == <<table, zrow, zseg, left_records, right_records, zresult, zpc>>
enVars == <<pages, epage, etable, erow, positions, left_bucket, right_bucket, erecords, epc>>

vars == <<writerVars, cliVars, termVars, zhVars, enVars>>

\* the parts of the program a specification does not run stay as they are
WriterIdle ==
    /\ template = <<>> /\ records = <<>> /\ wpc = "idle" /\ outFile = <<>>
    /\ tmpFile = <<>> /\ rendered = <<>> /\ infos = <<>> /\ data = <<>>
    /\ wi = 0 /\ werr = "none"

CliIdle ==
    /\ args = <<>> /\ cpc = "idle" /\ tasks = <<>> /\ ti = 0
    /\ outputs = <<>> /\ cerr = "none"

TermIdle == termLang = "none" /\ termIn = <<>> /\ termOut = <<>> /\ tpc = "idle"

ZhIdle ==
    /\ table = <<>> /\ zrow = 0 /\ zseg = 0 /\ left_records = <<>>
    /\ right_records = <<>> /\ zresult = <<>> /\ zpc = "idle"

EnIdle ==
    /\ pages = <<>> /\ epage = 0 /\ etable = 0 /\ erow = 0 /\ positions = <<>>
    /\ left_bucket = <<>> /\ right_bucket = <<>> /\ erecords = <<>> /\ epc = "idle"

(***************************************************************************)
(* Helpers                                                                 *)
(***************************************************************************)
Range(s) == {s[i] : i \in DOMAIN s}

SetMax(S) == CHOOSE m \in S : \A k \in S : k <= m

\* the sequences over S of length at most n
SeqsUpTo(S, n) == UNION {[1..k -> S] : k \in 0..n}

(***************************************************************************)
(* excel.py: the fixed tables of _render_sheet                             *)
(***************************************************************************)
column_order == <<"kechengming", "fenshu", "xuefen", "xueshi",
                  "xueshidanwei", "kechengleibie", "xueqi">>

col_letters == <<"A", "B", "C", "D", "E", "F", "G">>

column_styles == [l \in Range(col_letters) |->
                    IF l = "E" THEN "6" ELSE IF l = "G" THEN "7" ELSE "5"]

SHEET_NS_ATTRS == {"xmlns:r", "xmlns:xdr", "xmlns:x14", "xmlns:mc", "xmlns:etc"}

SheetName == "xl/worksheets/sheet1.xml"
SharedName == "xl/sharedStrings.xml"

\* Python's None as a record value; no text of the model equals it
NoneVal == "<None>"

\* a variant that forgets "if value is None: value = ''"
RecordGetKeepNone(record, key) ==
    IF key \in DOMAIN record THEN record[key] ELSE ""

\* record.get(key, "") followed by the None test
RecordGet(record, key) ==
    LET value == IF key \in DOMAIN record THEN record[key] ELSE ""
    IN  IF value = NoneVal THEN "" ELSE value

(***************************************************************************)
(* excel.py: _render_sheet.  A worksheet is                                *)
(*   [kind, attrs, hasSheetData, rows, hasDimension, dimension]            *)
(* a row [r, spans, cells], a cell [r, s] or [r, s, t, v], and the shared  *)
(* string part [kind, hasCount, count, si].  Pool indices are Python's,    *)
(* from 0: the string of index i is si[i + 1].                             *)
(***************************************************************************)
\* a variant that starts from an empty index
StringToIndexEmpty(shared_strings) ==
    [t \in {} |-> 0]

\* {text: idx for idx, text in enumerate(shared_strings)}: the last index wins
StringToIndex(shared_strings) ==
    [t \in Range(shared_strings) |->
        SetMax({i \in DOMAIN shared_strings : shared_strings[i] = t}) - 1]

\* One cell of a data row.  acc = [strings, index, total, cells].
RenderCell(acc, record, idx, col) ==
    LET letter == col_letters[col]
        value == RecordGet(record, column_order[col])
        ref == <<letter, idx>>
        style == column_styles[letter]
    IN  IF value = ""
        THEN [acc EXCEPT !.cells = Append(@, [r |-> ref, s |-> style])]
        ELSE LET known == value \in DOMAIN acc.index
                 strings == IF known THEN acc.strings ELSE Append(acc.strings, value)
                 index == IF known THEN acc.index
                          ELSE [t \in DOMAIN acc.index \cup {value} |->
                                  IF t = value THEN Len(acc.strings) ELSE acc.index[t]]
             IN  [strings |-> strings,
                  index |-> index,
                  total |-> acc.total + 1,
                  cells |-> Append(acc.cells,
                               [r |-> ref, s |-> style, t |-> "s", v |-> index[value]])]

RECURSIVE RenderCells(_, _, _, _)
RenderCells(acc, record, idx, col) ==
    IF col > Len(col_letters) THEN acc
    ELSE RenderCells(RenderCell(acc, record, idx, col), record, idx, col + 1)

\* a variant that numbers the data rows from 1: enumerate(records, start=1)
RECURSIVE RenderRowsFromOne(_, _, _)
RenderRowsFromOne(st, recs, k) ==
    IF k > Len(recs) THEN st
    ELSE LET idx == k
             acc == RenderCells([strings |-> st.strings, index |-> st.index,
                                 total |-> st.total, cells |-> <<>>],
                                recs[k], idx, 1)
             row_el == [r |-> idx, spans |-> "1:7", cells |-> acc.cells]
         IN  RenderRowsFromOne([strings |-> acc.strings, index |-> acc.index,
                                total |-> acc.total, rows |-> Append(st.rows, row_el)],
                               recs, k + 1)

\* for idx, record in enumerate(records, start=2).  st = [strings, index, total, rows]
RECURSIVE RenderRows(_, _, _)
RenderRows(st, recs, k) ==
    IF k > Len(recs) THEN st
    ELSE LET idx == k + 1
             acc == RenderCells([strings |-> st.strings, index |-> st.index,
                                 total |-> st.total, cells |-> <<>>],
                                recs[k], idx, 1)
             row_el == [r |-> idx, spans |-> "1:7", cells |-> acc.cells]
         IN  RenderRows([strings |-> acc.strings, index |-> acc.index,
                         total |-> acc.total, rows |-> Append(st.rows, row_el)],
                        recs, k + 1)

\* z.read(name): the payload of the last entry of that name (ZipFile.NameToInfo)
ZipRead(archive, name) ==
    archive[SetMax({i \in DOMAIN archive : archive[i].info.filename = name})].payload

ZipNames(archive) == {archive[i].info.filename : i \in DOMAIN archive}

\* The error _render_sheet raises on this template, or "none"
RenderError(tpl) ==
    IF SheetName \notin ZipNames(tpl) \/ SharedName \notin ZipNames(tpl)
    THEN "KeyError"
    ELSE LET sheet_root == ZipRead(tpl, SheetName)
         IN  IF ~sheet_root.hasSheetData THEN "ValueError: missing sheetData node"
             ELSE IF sheet_root.rows = <<>> THEN "ValueError: missing header row"
             ELSE "none"

_render_sheet(tpl, recs) ==
    LET sheet_root == ZipRead(tpl, SheetName)
        shared_root == ZipRead(tpl, SharedName)
        header_row == sheet_root.rows[1]
        shared_strings == shared_root.si
        total_count == IF shared_root.hasCount THEN shared_root.count
                       ELSE Len(shared_strings)
        st == RenderRows([strings |-> shared_strings,
                          index |-> StringToIndex(shared_strings),
                          total |-> total_count,
                          rows |-> <<header_row>>], recs, 1)
        last_row == IF recs # <<>> THEN Len(recs) + 1 ELSE 1
    IN  [sheet |-> [kind |-> "sheet",
                    attrs |-> sheet_root.attrs \cup SHEET_NS_ATTRS,
                    hasSheetData |-> TRUE,
                    rows |-> st.rows,
                    hasDimension |-> sheet_root.hasDimension,
                    dimension |-> IF sheet_root.hasDimension
                                  THEN <<"A1", "G", last_row>>
                                  ELSE sheet_root.dimension],
         shared |-> [kind |-> "sst",
                     hasCount |-> TRUE,
                     count |-> st.total,
                     si |-> st.strings]]

(***************************************************************************)
(* excel.py: _clone_zipinfo and _replace_zip_entries.  An archive entry is *)
(* [info, payload]; info is a ZipInfo.                                     *)
(***************************************************************************)
\* ZipInfo(filename): the constructor's defaults
NewZipInfo(filename) ==
    [filename |-> filename, date_time |-> <<1980, 1, 1, 0, 0, 0>>,
     compress_type |-> "ZIP_STORED", comment |-> "", extra |-> "",
     internal_attr |-> 0, external_attr |-> 0, create_system |-> 3,
     create_version |-> 20, extract_version |-> 20, flag_bits |-> 0, volume |-> 0]

_clone_zipinfo(info) ==
    [NewZipInfo(info.filename) EXCEPT
        !.date_time = info.date_time,
        !.compress_type = info.compress_type,
        !.comment = info.comment,
        !.extra = info.extra,
        !.internal_attr = info.internal_attr,
        !.external_attr = info.external_attr,
        !.create_system = info.create_system,
        !.create_version = info.create_version,
        !.extract_version = info.extract_version,
        !.flag_bits = info.flag_bits,
        !.volume = info.volume]

\* A dict as a sequence of [name, payload] pairs in insertion order
DictKeys(d) == {d[i].name : i \in DOMAIN d}

DictGet(d, name) == d[CHOOSE i \in DOMAIN d : d[i].name = name].payload

DictSet(d, name, payload) ==
    IF name \in DictKeys(d)
    THEN [i \in DOMAIN d |-> IF d[i].name = name
                             THEN [name |-> name, payload |-> payload] ELSE d[i]]
    ELSE Append(d, [name |-> name, payload |-> payload])

DictPop(d, name) == SelectSeq(d, LAMBDA e : e.name # name)

\* {info.filename: existing_zip.read(info.filename) for info in infos}
RECURSIVE ReadAll(_, _, _)
ReadAll(archive, k, d) ==
    IF k > Len(archive) THEN d
    ELSE ReadAll(archive, k + 1,
                 DictSet(d, archive[k].info.filename,
                         ZipRead(archive, archive[k].info.filename)))

\* for name, payload in data.items(): writestr(ZipInfo(name), payload)
Leftover(d) == [i \in DOMAIN d |-> [info |-> NewZipInfo(d[i].name), payload |-> d[i].payload]]

\* a variant that moves the archive into place before it is closed
ZipCloseMissing(file) == file

\* leaving "with ZipFile(tmp_path, 'w')": the central directory is written
ZipClose(file) == [file EXCEPT !.complete = TRUE]

(***************************************************************************)
(* The templates and record lists write_to_template is run on              *)
(***************************************************************************)
MaxRecords == 2

\* a ZipInfo read from the template: every field differs from the defaults
TplInfo(filename, k) ==
    [filename |-> filename, date_time |-> <<2024, 5, k, 10, 20, 30>>,
     compress_type |-> "ZIP_DEFLATED", comment |-> "c", extra |-> "x",
     internal_attr |-> 1, external_attr |-> 33188, create_system |-> 0,
     create_version |-> 45, extract_version |-> 45, flag_bits |-> 2048, volume |-> 1]

Opaque(id, k) == [kind |-> "bytes", id |-> id, rev |-> k]

HeaderRow == [r |-> 1, spans |-> "1:7",
              cells |-> <<[r |-> <<"A", 1>>, s |-> "1", t |-> "s", v |-> 0]>>]

OldRow(n) == [r |-> n, spans |-> "1:7",
              cells |-> <<[r |-> <<"A", n>>, s |-> "5", t |-> "s", v |-> 1]>>]

Sheet(hasSheetData, rows, hasDimension) ==
    [kind |-> "sheet", attrs |-> {"xmlns", "xmlns:r"}, hasSheetData |-> hasSheetData,
     rows |-> rows, hasDimension |-> hasDimension,
     dimension |-> IF hasDimension THEN <<"A1", "G", Len(rows)>> ELSE <<>>]

SheetSet == {Sheet(FALSE, <<>>, FALSE),
             Sheet(TRUE, <<>>, TRUE),
             Sheet(TRUE, <<HeaderRow>>, FALSE),
             Sheet(TRUE, <<HeaderRow, OldRow(2), OldRow(3)>>, TRUE)}

Sst(hasCount, count, si) == [kind |-> "sst", hasCount |-> hasCount, count |-> count, si |-> si]

PoolSet == {Sst(FALSE, 0, <<>>),
            Sst(TRUE, 5, <<"h", "x">>),
            Sst(TRUE, 7, <<"x", "h", "x">>)}

LayoutSet == {<<"[Content_Types].xml", SheetName, "xl/styles.xml", SharedName>>,
              <<SharedName, "xl/styles.xml", SheetName>>,
              <<"xl/styles.xml", SheetName, SharedName, "xl/styles.xml">>,
              <<"[Content_Types].xml", SheetName>>}

Template(layout, sheet, sst) ==
    [i \in DOMAIN layout |->
        [info |-> TplInfo(layout[i], i),
         payload |-> IF layout[i] = SheetName THEN sheet
                     ELSE IF layout[i] = SharedName THEN sst
                     ELSE Opaque(layout[i], i)]]

TemplateSet == {Template(l, s, p) : l \in LayoutSet, s \in SheetSet, p \in PoolSet}

\* a record: a value of the pool or a new one, "", None and a missing key
Rec(a, g) ==
    [k \in Range(column_order) \ {"xueshi"} |->
        CASE k = "kechengming" -> a
          [] k = "fenshu" -> ""
          [] k = "xuefen" -> NoneVal
          [] k = "xueshidanwei" -> "h"
          [] k = "kechengleibie" -> a
          [] k = "xueqi" -> g]

RecordSet == {Rec(a, g) : a \in {"x", "n", ""}, g \in {"n", "m"}}

Absent == [exists |-> FALSE, entries |-> <<>>, complete |-> FALSE]

StaleFile == [exists |-> TRUE,
              entries |-> <<[info |-> NewZipInfo("old.xml"), payload |-> Opaque("old.xml", 0)]>>,
              complete |-> TRUE]

(***************************************************************************)
(* excel.py: write_to_template, step by step                               *)
(***************************************************************************)
WriterInit ==
    /\ template \in TemplateSet
    /\ records \in SeqsUpTo(RecordSet, MaxRecords)
    /\ wpc = "start"
    /\ outFile \in {Absent, StaleFile}
    /\ tmpFile = Absent
    /\ rendered = <<>>
    /\ infos = <<>>
    /\ data = <<>>
    /\ wi = 0
    /\ werr = "none"
    /\ CliIdle /\ TermIdle /\ ZhIdle /\ EnIdle

\* shutil.copyfile(template_path, output_path)
CopyTemplate ==
    /\ wpc = "start"
    /\ outFile' = [exists |-> TRUE, entries |-> template, complete |-> TRUE]
    /\ wpc' = "copied"
    /\ UNCHANGED <<template, records, tmpFile, rendered, infos, data, wi, werr>>
    /\ UNCHANGED <<cliVars, termVars, zhVars, enVars>>

\* _render_sheet returns
RenderOk ==
    /\ wpc = "copied"
    /\ RenderError(template) = "none"
    /\ rendered' = _render_sheet(template, records)
    /\ wpc' = "rendered"
    /\ UNCHANGED <<template, records, outFile, tmpFile, infos, data, wi, werr>>
    /\ UNCHANGED <<cliVars, termVars, zhVars, enVars>>

\* _render_sheet raises: the exception leaves write_to_template
RenderRaise ==
    /\ wpc = "copied"
    /\ RenderError(template) # "none"
    /\ werr' = RenderError(template)
    /\ wpc' = "failed"
    /\ UNCHANGED <<template, records, outFile, tmpFile, rendered, infos, data, wi>>
    /\ UNCHANGED <<cliVars, termVars, zhVars, enVars>>

\* _replace_zip_entries: read the archive at zip_path, data.update(replacements)
ZipLoad ==
    /\ wpc = "rendered"
    /\ infos' = [i \in DOMAIN outFile.entries |-> outFile.entries[i].info]
    /\ data' = DictSet(DictSet(ReadAll(outFile.entries, 1, <<>>),
                               SheetName, rendered.sheet),
                       SharedName, rendered.shared)
    /\ wpc' = "zip_loaded"
    /\ UNCHANGED <<template, records, outFile, tmpFile, rendered, wi, werr>>
    /\ UNCHANGED <<cliVars, termVars, zhVars, enVars>>

\* tempfile.NamedTemporaryFile(delete=False); ZipFile(tmp_path, "w")
ZipTemp ==
    /\ wpc = "zip_loaded"
    /\ tmpFile' = [exists |-> TRUE, entries |-> <<>>, complete |-> FALSE]
    /\ wi' = 1
    /\ wpc' = "zip_write"
    /\ UNCHANGED <<template, records, outFile, rendered, infos, data, werr>>
    /\ UNCHANGED <<cliVars, termVars, zhVars, enVars>>

\* for info in infos: writestr(_clone_zipinfo(info), data.pop(name))
ZipWriteEntry ==
    /\ wpc = "zip_write"
    /\ wi <= Len(infos)
    /\ infos[wi].filename \in DictKeys(data)
    /\ tmpFile' = [tmpFile EXCEPT !.entries =
                      Append(@, [info |-> _clone_zipinfo(infos[wi]),
                                 payload |-> DictGet(data, infos[wi].filename)])]
    /\ data' = DictPop(data, infos[wi].filename)
    /\ wi' = wi + 1
    /\ UNCHANGED <<template, records, wpc, outFile, rendered, infos, werr>>
    /\ UNCHANGED <<cliVars, termVars, zhVars, enVars>>

\* for info in infos: if name not in data: continue
ZipSkipEntry ==
    /\ wpc = "zip_write"
    /\ wi <= Len(infos)
    /\ infos[wi].filename \notin DictKeys(data)
    /\ wi' = wi + 1
    /\ UNCHANGED <<template, records, wpc, outFile, tmpFile, rendered, infos, data, werr>>
    /\ UNCHANGED <<cliVars, termVars, zhVars, enVars>>

\* the entries left in data are written with a fresh ZipInfo; the archive is closed
ZipFinish ==
    /\ wpc = "zip_write"
    /\ wi > Len(infos)
    /\ tmpFile' = ZipClose([tmpFile EXCEPT !.entries = @ \o Leftover(data)])
    /\ data' = <<>>
    /\ wpc' = "zip_closed"
    /\ UNCHANGED <<template, records, outFile, rendered, infos, wi, werr>>
    /\ UNCHANGED <<cliVars, termVars, zhVars, enVars>>

\* an OSError of the archive writer is not handled: it leaves write_to_template
ZipWriteRaise ==
    /\ wpc = "zip_write"
    /\ werr' = "OSError"
    /\ wpc' = "failed"
    /\ UNCHANGED <<template, records, outFile, tmpFile, rendered, infos, data, wi>>
    /\ UNCHANGED <<cliVars, termVars, zhVars, enVars>>

\* os.replace(tmp_path, zip_path)
OsReplace ==
    /\ wpc = "zip_closed"
    /\ outFile' = tmpFile
    /\ tmpFile' = Absent
    /\ wpc' = "done"
    /\ UNCHANGED <<template, records, rendered, infos, data, wi, werr>>
    /\ UNCHANGED <<cliVars, termVars, zhVars, enVars>>

WriterNext ==
    \/ CopyTemplate
    \/ RenderOk
    \/ RenderRaise
    \/ ZipLoad
    \/ ZipTemp
    \/ ZipWriteEntry
    \/ ZipSkipEntry
    \/ ZipFinish
    \/ ZipWriteRaise
    \/ OsReplace

SpecWriter == WriterInit /\ [][WriterNext]_vars

(***************************************************************************)
(* parser.py: text.  A text is a sequence of characters, each a string;    *)
(* a Chinese character is written as its pinyin syllable.  None is the     *)
(* one-element sequence <<"None">>, which is no text.                      *)
(***************************************************************************)
None == <<"None">>

Digit == {"0", "1", "2", "3", "4", "5", "6", "7", "8", "9"}

\* the characters str.strip() removes and \s matches
Space == {" ", "\t", "\n", "\r"}

RECURSIVE LStrip(_)
LStrip(t) == IF t # <<>> /\ Head(t) \in Space THEN LStrip(Tail(t)) ELSE t

RECURSIVE RStrip(_)
RStrip(t) == IF t # <<>> /\ t[Len(t)] \in Space THEN RStrip(SubSeq(t, 1, Len(t) - 1)) ELSE t

\* str.strip()
Strip(t) == RStrip(LStrip(t))

\* str.startswith(prefix)
StartsWith(t, prefix) == Len(t) >= Len(prefix) /\ SubSeq(t, 1, Len(prefix)) = prefix

\* "needle in t" for two texts
Contains(t, needle) ==
    \E i \in 1..(Len(t) - Len(needle) + 1) : SubSeq(t, i, i + Len(needle) - 1) = needle

\* a variant of _clean_text that does not strip
_clean_text_nostrip(value) == IF value = None THEN <<>> ELSE value

_clean_text(value) == IF value = None THEN <<>> ELSE Strip(value)

\* \d{4}-\d{4}
IsYearRange(t) ==
    /\ Len(t) = 9
    /\ \A i \in {1, 2, 3, 4, 6, 7, 8, 9} : t[i] \in Digit
    /\ t[5] = "-"

(***************************************************************************)
(* parser.py: _convert_chinese_semester                                    *)
(***************************************************************************)
xueqi == <<"xue", "qi">>
zongxuefenjidian == <<"zong", "xue", "fen", "ji", "dian">>

\* the character class of the pattern
Seasons == {"chun", "xia", "qiu", "dong"}

\* a variant of the mapping that gives summer a term of its own
mapping_four == [season \in Seasons |->
                    CASE season = "qiu" -> "1" [] season = "chun" -> "2"
                      [] season = "dong" -> "3" [] season = "xia" -> "4"]

mapping == [season \in Seasons |->
               CASE season = "qiu" -> "1" [] season = "chun" -> "2"
                 [] season = "dong" -> "3" [] season = "xia" -> "3"]

_convert_chinese_semester(term0) ==
    IF term0 = None \/ term0 = <<>> THEN None
    ELSE LET term == Strip(term0)
         IN  IF term \in {xueqi, zongxuefenjidian} THEN None
             \* ^(\d{4})-(\d{4})([chun xia qiu dong])$
             ELSE IF ~(/\ Len(term) = 10
                       /\ IsYearRange(SubSeq(term, 1, 9))
                       /\ term[10] \in Seasons)
             THEN None
             ELSE SubSeq(term, 1, 4) \o <<"-">> \o SubSeq(term, 6, 9)
                      \o <<"-", mapping[term[10]]>>

(***************************************************************************)
(* parser.py: _convert_english_semester                                    *)
(***************************************************************************)
st == <<"s", "t">>
nd == <<"n", "d">>
rd == <<"r", "d">>
th == <<"t", "h">>

Suffixes == {st, nd, rd, th}

\* term.replace("\n", " ").replace("\r", " ").strip()
Cleaned(term) ==
    Strip([i \in DOMAIN term |-> IF term[i] \in {"\n", "\r"} THEN " " ELSE term[i]])

\* a variant whose pattern asks for \s+ between the ordinal and the years
EnglishMatchesSpaced(cleaned) ==
    {p \in 3..(Len(cleaned) + 1) :
        /\ cleaned[1] \in Digit
        /\ cleaned[p - 1] \in Space
        /\ \E a \in {2, 4} :
              /\ a <= p
              /\ a = 4 => Len(cleaned) >= 3 /\ SubSeq(cleaned, 2, 3) \in Suffixes
              /\ \A i \in a..(p - 1) : cleaned[i] \in Space
        /\ IsYearRange(SubSeq(cleaned, p, Len(cleaned)))}

\* ^(\d)(?:st|nd|rd|th)?\s*(\d{4}-\d{4})$ : the position at which group 2
\* starts in a match; the set is empty when the pattern does not match.
\* After the digit the suffix is taken or not, then any run of \s.
EnglishMatches(cleaned) ==
    {p \in 2..(Len(cleaned) + 1) :
        /\ cleaned[1] \in Digit
        /\ \E a \in {2, 4} :
              /\ a <= p
              /\ a = 4 => Len(cleaned) >= 3 /\ SubSeq(cleaned, 2, 3) \in Suffixes
              /\ \A i \in a..(p - 1) : cleaned[i] \in Space
        /\ IsYearRange(SubSeq(cleaned, p, Len(cleaned)))}


_convert_english_semester(term) ==
    IF term = None \/ term = <<>> THEN None
    ELSE LET cleaned == Cleaned(term)
             match == IF cleaned = <<>> THEN {} ELSE EnglishMatches(cleaned)
         IN  IF match = {} THEN None
             ELSE LET p == CHOOSE q \in match : TRUE
                      order == <<cleaned[1]>>
                      years == SubSeq(cleaned, p, Len(cleaned))
                  IN  years \o <<"-">> \o order

(***************************************************************************)
(* The terms the two conversions are run on: the parts are concatenated    *)
(***************************************************************************)
RECURSIVE Concat(_)
Concat(parts) == IF parts = <<>> THEN <<>> ELSE Head(parts) \o Concat(Tail(parts))

Y2020 == <<"2", "0", "2", "0">>
Y2021 == <<"2", "0", "2", "1">>
Y2022 == <<"2", "0", "2", "2">>
YR2020 == Y2020 \o <<"-">> \o Y2021
YR2021 == Y2021 \o <<"-">> \o Y2022

EnLead == {<<>>, <<" ">>, <<"\n">>}
EnOrd == {<<>>, <<"1">>, <<"3">>, <<"7">>, <<"1", "2">>}
EnSuf == {<<>>, st, nd, rd, th, <<" ">> \o st, <<"x", "y">>}
EnSep == {<<>>, <<" ">>, <<"\n">>, <<"\r", "\n">>, <<"\t">>, <<" ", " ">>}
EnYears == {YR2020, YR2021, <<>>, Y2020, Y2020 \o <<" ", "-", " ">> \o Y2021,
            <<"2", "0", "-", "2", "1">>}
EnTrail == {<<>>, <<"\n">>, <<" ">>, <<"x">>}

EnglishTerms ==
    {<<lead, ord, suf, sep, years, trail>> :
        lead \in EnLead, ord \in EnOrd, suf \in EnSuf, sep \in EnSep,
        years \in EnYears, trail \in EnTrail}

ZhLead == {<<>>, <<" ">>}
ZhYear == {Y2021, Y2022, <<"2", "1">>, <<"2", "0", "2", "x">>}
ZhDash == {<<"-">>, <<"/">>, <<>>}
ZhSeason == {<<"chun">>, <<"xia">>, <<"qiu">>, <<"dong">>, <<>>, <<"ji">>, <<"qiu", "ji">>}
ZhTrail == {<<>>, <<"\n">>, <<"x">>}

ChineseTerms ==
    {<<lead, start, dash, end, season, trail>> :
        lead \in ZhLead, start \in ZhYear, dash \in ZhDash, end \in ZhYear,
        season \in ZhSeason, trail \in ZhTrail}
        \cup {<<xueqi>>, <<zongxuefenjidian>>, <<<<" ">>, xueqi>>}

\* termIn is the list of parts; the absent argument is the one part None
TermText == Concat(termIn)

TermInit ==
    /\ \/ termLang = "chinese" /\ termIn \in ChineseTerms \cup {<<None>>}
       \/ termLang = "english" /\ termIn \in EnglishTerms \cup {<<None>>}
    /\ termOut = <<>>
    /\ tpc = "call"
    /\ WriterIdle /\ CliIdle /\ ZhIdle /\ EnIdle

ConvertChinese ==
    /\ tpc = "call"
    /\ termLang = "chinese"
    /\ termOut' = _convert_chinese_semester(TermText)
    /\ tpc' = "ret"
    /\ UNCHANGED <<termLang, termIn>>
    /\ UNCHANGED <<writerVars, cliVars, zhVars, enVars>>

ConvertEnglish ==
    /\ tpc = "call"
    /\ termLang = "english"
    /\ termOut' = _convert_english_semester(TermText)
    /\ tpc' = "ret"
    /\ UNCHANGED <<termLang, termIn>>
    /\ UNCHANGED <<writerVars, cliVars, zhVars, enVars>>

TermNext ==
    \/ ConvertChinese
    \/ ConvertEnglish

SpecTerm == TermInit /\ [][TermNext]_vars

(***************************************************************************)
(* Properties of the term normalisers                                      *)
(***************************************************************************)
\* <start-year>-<end-year>-<n>, two four-digit years
IsSemesterCode(t, terms) ==
    /\ Len(t) = 11
    /\ IsYearRange(SubSeq(t, 1, 9))
    /\ t[10] = "-"
    /\ t[11] \in terms

\* C7: a conversion that returns a value returns <start>-<end>-<n> with n
\* one of 1, 2, 3.
C7_TermInRange ==
    tpc = "ret" /\ termOut # None => IsSemesterCode(termOut, {"1", "2", "3"})

\* of the Chinese conversion alone C7 holds
C7_ChineseTermInRange ==
    tpc = "ret" /\ termLang = "chinese" /\ termOut # None
        => IsSemesterCode(termOut, {"1", "2", "3"})

\* ---- C8
AllSpace(t) == \A i \in DOMAIN t : t[i] \in Space

\* some nine characters in a row are a year range
HasYearRange(t) == \E i \in 1..(Len(t) - 8) : IsYearRange(SubSeq(t, i, i + 8))

\* the suffix English gives the digit
Belongs(ord, suf) ==
    suf = (CASE ord = <<"1">> -> st [] ord = <<"2">> -> nd [] ord = <<"3">> -> rd
             [] OTHER -> th)

\* the parts are N, a suffix or none, YYYY-YYYY, with white space around them
EnglishForm(parts) ==
    /\ AllSpace(parts[1])
    /\ Len(parts[2]) = 1 /\ parts[2][1] \in Digit
    /\ parts[3] \in Suffixes \cup {<<>>}
    /\ AllSpace(parts[4])
    /\ IsYearRange(parts[5])
    /\ AllSpace(parts[6])

\* the ordinal has several digits and ends there
MultiDigitOrdinal(parts) ==
    /\ AllSpace(parts[1])
    /\ Len(parts[2]) > 1
    /\ parts[3] \in Suffixes \/ (parts[3] = <<>> /\ parts[4] # <<>>)

\* white space between the digit and its suffix
SeparatedOrdinal(parts) ==
    /\ Len(parts[2]) = 1
    /\ \E suf \in Suffixes : parts[3] = <<" ">> \o suf

EnglishRet == tpc = "ret" /\ termLang = "english"

\* C8 as claimed: a suffix that does not belong to the digit is a malformed
\* ordinal and gives no match.
C8_AsClaimed ==
    EnglishRet =>
        /\ Len(termIn) = 6 /\ EnglishForm(termIn)
              /\ (termIn[3] = <<>> \/ Belongs(termIn[2], termIn[3]))
              => termOut = termIn[5] \o <<"-">> \o termIn[2]
        /\ Len(termIn) = 6 /\ EnglishForm(termIn)
              /\ termIn[3] # <<>> /\ ~Belongs(termIn[2], termIn[3])
              => termOut = None
        /\ Len(termIn) = 6 /\ (MultiDigitOrdinal(termIn) \/ SeparatedOrdinal(termIn))
              => termOut = None
        /\ TermText # None /\ ~HasYearRange(TermText) => termOut = None
        /\ TermText = None \/ TermText = <<>> => termOut = None

\* C8, amended: any of the four suffixes is accepted after any digit.  N,
\* then st, nd, rd, th or nothing, then YYYY-YYYY, with any white space
\* (also none) around the three, gives YYYY-YYYY-N; an ordinal of several
\* digits, a digit separated from its suffix, a text with no year range and
\* an empty or absent text give no match.
C8_EnglishConversion ==
    EnglishRet =>
        /\ Len(termIn) = 6 /\ EnglishForm(termIn)
              => termOut = termIn[5] \o <<"-">> \o termIn[2]
        /\ Len(termIn) = 6 /\ (MultiDigitOrdinal(termIn) \/ SeparatedOrdinal(termIn))
              => termOut = None
        /\ TermText # None /\ ~HasYearRange(TermText) => termOut = None
        /\ TermText = None \/ TermText = <<>> => termOut = None

\* "1nd", new lines around the tokens: converted
C8_Witness ==
    /\ EnglishRet
    /\ Len(termIn) = 6
    /\ termIn[2] = <<"1">> /\ termIn[3] = nd /\ termIn[4] = <<"\r", "\n">>
    /\ termIn[1] = <<"\n">> /\ termIn[6] = <<"\n">>
    /\ termOut = YR2020 \o <<"-", "1">>

\* a separated ordinal before a good year range: no match
C8_WitnessSeparated ==
    /\ EnglishRet /\ Len(termIn) = 6
    /\ SeparatedOrdinal(termIn) /\ IsYearRange(termIn[5]) /\ termIn[6] = <<>>
    /\ termOut = None

(***************************************************************************)
(* parser.py: parse_chinese.  A grid is a sequence of rows, a row a        *)
(* sequence of cells, a cell a text or None.  Column indices are Python's, *)
(* from 0: row[idx] is At(row, idx).                                       *)
(***************************************************************************)
At(row, idx) == row[idx + 1]

segments == <<[name |-> 0, credit |-> 3, score |-> 4, category |-> 5, semester |-> 8],
              [name |-> 10, credit |-> 15, score |-> 16, category |-> 17, semester |-> 20]>>

\* xingming, minzu, banji, kechengmingcheng, biyesheji, yingxiuzongxuefen, guojiayingyu
skip_prefixes == {<<"xing", "ming">>, <<"min", "zu">>, <<"ban", "ji">>,
                  <<"ke", "cheng", "ming", "cheng">>, <<"bi", "ye", "she", "ji">>,
                  <<"ying", "xiu", "zong", "xue", "fen">>, <<"guo", "jia", "ying", "yu">>}

\* the unit label of the class hours: xueshi
xueshi == <<"xue", "shi">>

\* row[idx] if idx < len(row) else None
CellOrNone(row, idx) == IF idx < Len(row) THEN At(row, idx) ELSE None

\* _clean_text(row[idx]) if idx < len(row) else ""
CleanOrEmpty(row, idx) == IF idx < Len(row) THEN _clean_text(At(row, idx)) ELSE <<>>

\* What one pass of the inner loop does with a row and a column group
ChineseOutcome(row, indices) ==
    IF indices.name >= Len(row) THEN "name out of range"
    ELSE LET name == _clean_text(At(row, indices.name))
         IN  IF name = <<>> THEN "name empty"
             ELSE IF \E prefix \in skip_prefixes : StartsWith(name, prefix) THEN "skip prefix"
             ELSE IF _convert_chinese_semester(_clean_text(CellOrNone(row, indices.semester)))
                        = None
             THEN "no semester"
             ELSE "record"

ChineseRecord(row, indices) ==
    [kechengming |-> _clean_text(At(row, indices.name)),
     fenshu |-> CleanOrEmpty(row, indices.score),
     xuefen |-> CleanOrEmpty(row, indices.credit),
     xueshi |-> <<>>,
     xueshidanwei |-> xueshi,
     kechengleibie |-> CleanOrEmpty(row, indices.category),
     xueqi |-> _convert_chinese_semester(_clean_text(CellOrNone(row, indices.semester)))]

\* a variant that returns the two buckets row by row
ChineseResultRightFirst(left, right) == right \o left

\* return left_records + right_records
ChineseResult(left, right) == left \o right

(***************************************************************************)
(* The grids parse_chinese is run on                                       *)
(***************************************************************************)
MaxRows == 2

\* the width of a full row of the transcript
FullWidth == 21

Math == <<"M", "a", "t", "h">>
Phys == <<" ", "P", "h", "y", "s", "\n">>
Thesis == <<"bi", "ye", "she", "ji", "(", "lun", "wen", ")">>

\* name, credit, score, category, semester of one side of a row
Side(name, credit, score, category, semester) ==
    [name |-> name, credit |-> credit, score |-> score, category |-> category,
     semester |-> semester]

SideQiu == Side(Math, <<"3">>, <<"9", "0">>, <<"A">>, YR2021 \o <<"qiu">>)
SideChun == Side(Phys, None, <<" ", "8", "5">>, <<>>, <<" ">> \o YR2021 \o <<"chun", "\n">>)
SideDong == Side(<<"P", "E">>, <<"1">>, <<"P">>, <<"B">>, YR2020 \o <<"dong">>)
SideXia == Side(<<"L", "a", "b">>, <<"2">>, None, <<"C">>, YR2020 \o <<"xia">>)
SideThesis == Side(Thesis, <<"8">>, <<"9", "5">>, <<"A">>, YR2021 \o <<"chun">>)
SideBlank == Side(<<" ", " ">>, <<"3">>, <<"9", "0">>, <<"A">>, YR2021 \o <<"qiu">>)
SideNone == Side(None, <<"3">>, <<"9", "0">>, <<"A">>, YR2021 \o <<"qiu">>)
SideHeader == Side(<<"C", "h", "e", "m">>, <<"3">>, <<"9", "0">>, <<"A">>, xueqi)
SideBadTerm == Side(<<"C", "h", "e", "m">>, <<"3">>, <<"9", "0">>, <<"A">>,
                    YR2021 \o <<"ji">>)

LeftSides == {SideQiu, SideChun, SideDong, SideXia, SideThesis, SideBlank, SideNone,
              SideHeader, SideBadTerm}
RightSides == {SideQiu, SideXia, SideThesis, SideBadTerm}

\* the first width cells of the full row holding the two sides
MkRow(width, l, r) ==
    [i \in 1..width |->
        LET idx == i - 1
            cell(side, seg) ==
                CASE idx = seg.name -> side.name
                  [] idx = seg.credit -> side.credit
                  [] idx = seg.score -> side.score
                  [] idx = seg.category -> side.category
                  [] idx = seg.semester -> side.semester
                  [] OTHER -> None
        IN  IF idx < segments[2].name THEN cell(l, segments[1]) ELSE cell(r, segments[2])]

RowSet ==
    {MkRow(FullWidth, l, SideXia) : l \in LeftSides}
        \cup {MkRow(FullWidth, SideQiu, r) : r \in RightSides}
        \cup {MkRow(FullWidth, SideThesis, SideBadTerm)}
        \cup {MkRow(w, SideQiu, SideXia) : w \in {0, 4, 8, 9, 10, 11, 16, 20}}

(***************************************************************************)
(* parser.py: parse_chinese, one pass of the inner loop per step           *)
(***************************************************************************)
ZhInit ==
    /\ table \in SeqsUpTo(RowSet, MaxRows)
    /\ zrow = 1
    /\ zseg = 1
    /\ left_records = <<>>
    /\ right_records = <<>>
    /\ zresult = <<>>
    /\ zpc = "start"
    /\ WriterIdle /\ CliIdle /\ TermIdle /\ EnIdle

\* if not table: return []
ZhNoTable ==
    /\ zpc = "start"
    /\ table = <<>>
    /\ zresult' = <<>>
    /\ zpc' = "done"
    /\ UNCHANGED <<table, zrow, zseg, left_records, right_records>>
    /\ UNCHANGED <<writerVars, cliVars, termVars, enVars>>

ZhEnterLoop ==
    /\ zpc = "start"
    /\ table # <<>>
    /\ zpc' = "loop"
    /\ UNCHANGED <<table, zrow, zseg, left_records, right_records, zresult>>
    /\ UNCHANGED <<writerVars, cliVars, termVars, enVars>>

\* if not row: continue
ZhEmptyRow ==
    /\ zpc = "loop"
    /\ zrow <= Len(table)
    /\ table[zrow] = <<>>
    /\ zrow' = zrow + 1
    /\ zseg' = 1
    /\ UNCHANGED <<table, left_records, right_records, zresult, zpc>>
    /\ UNCHANGED <<writerVars, cliVars, termVars, enVars>>

\* the next pass: the other column group, or the next row
ZhAdvance ==
    /\ zrow' = IF zseg = Len(segments) THEN zrow + 1 ELSE zrow
    /\ zseg' = IF zseg = Len(segments) THEN 1 ELSE zseg + 1

ZhAt(outcome) ==
    /\ zpc = "loop"
    /\ zrow <= Len(table)
    /\ table[zrow] # <<>>
    /\ ChineseOutcome(table[zrow], segments[zseg]) = outcome

\* if name_idx >= len(row): continue
ZhNameOutOfRange ==
    /\ ZhAt("name out of range")
    /\ ZhAdvance
    /\ UNCHANGED <<table, left_records, right_records, zresult, zpc>>
    /\ UNCHANGED <<writerVars, cliVars, termVars, enVars>>

\* if not name: continue
ZhNameEmpty ==
    /\ ZhAt("name empty")
    /\ ZhAdvance
    /\ UNCHANGED <<table, left_records, right_records, zresult, zpc>>
    /\ UNCHANGED <<writerVars, cliVars, termVars, enVars>>

\* if any(name.startswith(prefix) for prefix in skip_prefixes): continue
ZhSkipPrefix ==
    /\ ZhAt("skip prefix")
    /\ ZhAdvance
    /\ UNCHANGED <<table, left_records, right_records, zresult, zpc>>
    /\ UNCHANGED <<writerVars, cliVars, termVars, enVars>>

\* if not semester: continue
ZhNoSemester ==
    /\ ZhAt("no semester")
    /\ ZhAdvance
    /\ UNCHANGED <<table, left_records, right_records, zresult, zpc>>
    /\ UNCHANGED <<writerVars, cliVars, termVars, enVars>>

\* bucket.append(record)
ZhAppend ==
    /\ ZhAt("record")
    /\ IF zseg = 1
       THEN /\ left_records' = Append(left_records, ChineseRecord(table[zrow], segments[1]))
            /\ UNCHANGED right_records
       ELSE /\ right_records' = Append(right_records, ChineseRecord(table[zrow], segments[2]))
            /\ UNCHANGED left_records
    /\ ZhAdvance
    /\ UNCHANGED <<table, zresult, zpc>>
    /\ UNCHANGED <<writerVars, cliVars, termVars, enVars>>

ZhReturn ==
    /\ zpc = "loop"
    /\ zrow > Len(table)
    /\ zresult' = ChineseResult(left_records, right_records)
    /\ zpc' = "done"
    /\ UNCHANGED <<table, zrow, zseg, left_records, right_records>>
    /\ UNCHANGED <<writerVars, cliVars, termVars, enVars>>

ZhNext ==
    \/ ZhNoTable
    \/ ZhEnterLoop
    \/ ZhEmptyRow
    \/ ZhNameOutOfRange
    \/ ZhNameEmpty
    \/ ZhSkipPrefix
    \/ ZhNoSemester
    \/ ZhAppend
    \/ ZhReturn

SpecChinese == ZhInit /\ [][ZhNext]_vars

(***************************************************************************)
(* Properties of parse_chinese                                             *)
(***************************************************************************)
\* t without the white space at its two ends
Trimmed(t) ==
    LET ink == {i \in DOMAIN t : t[i] \notin Space}
    IN  IF ink = {} THEN <<>>
        ELSE SubSeq(t, CHOOSE i \in ink : \A j \in ink : i <= j,
                       CHOOSE i \in ink : \A j \in ink : j <= i)

\* the text of a cell that may be out of range or None
CellText9(row, idx) ==
    IF idx >= Len(row) \/ At(row, idx) = None THEN <<>> ELSE Trimmed(At(row, idx))

\* qiu -> 1, chun -> 2, dong -> 3, xia -> 3
TermOfSeason(ch) ==
    CASE ch = "qiu" -> "1" [] ch = "chun" -> "2" [] ch = "dong" -> "3" [] ch = "xia" -> "3"

\* YYYY-YYYY and a season
IsChineseTerm(t) ==
    /\ Len(t) = 10
    /\ IsYearRange(SubSeq(t, 1, 9))
    /\ t[10] \in {"qiu", "chun", "dong", "xia"}

\* the row gives a record for the column group g
Kept(row, g) ==
    /\ g.name < Len(row)
    /\ CellText9(row, g.name) # <<>>
    /\ \A prefix \in skip_prefixes : ~StartsWith(CellText9(row, g.name), prefix)
    /\ IsChineseTerm(CellText9(row, g.semester))

ExpectedRecord(row, g) ==
    LET term == CellText9(row, g.semester)
    IN  [kechengming |-> CellText9(row, g.name),
         fenshu |-> CellText9(row, g.score),
         xuefen |-> CellText9(row, g.credit),
         xueshi |-> <<>>,
         xueshidanwei |-> <<"xue", "shi">>,
         kechengleibie |-> CellText9(row, g.category),
         xueqi |-> SubSeq(term, 1, 9) \o <<"-", TermOfSeason(term[10])>>]

\* the records of one column group, top to bottom
RECURSIVE Collect(_, _, _)
Collect(tbl, g, k) ==
    IF k > Len(tbl) THEN <<>>
    ELSE (IF Kept(tbl[k], g) THEN <<ExpectedRecord(tbl[k], g)>> ELSE <<>>)
             \o Collect(tbl, g, k + 1)

\* C9: parse_chinese returns L ++ R: the records of the left column group in
\* row order, then those of the right one; a side gives a record exactly
\* when its name cell is in range, not empty once trimmed, starts with no
\* skip prefix, and its semester cell is YYYY-YYYY and a season (qiu 1,
\* chun 2, dong 3, xia 3); the two sides of a row are decided apart.
C9_ChineseLeftThenRight ==
    zpc = "done" =>
        zresult = Collect(table, segments[1], 1) \o Collect(table, segments[2], 1)

\* a thesis row on the left whose right side is kept, above a row kept on both sides:
\* the left record of the second row comes first
C9_Witness ==
    /\ zpc = "done"
    /\ Len(table) = 2
    /\ table[1] = MkRow(FullWidth, SideThesis, SideXia)
    /\ table[2] = MkRow(FullWidth, SideChun, SideXia)
    /\ Len(zresult) = 3
    /\ zresult[1].kechengming = <<"P", "h", "y", "s">>
    /\ zresult[1].xueqi = YR2021 \o <<"-", "2">>
    /\ zresult[2].xueqi = YR2020 \o <<"-", "3">>
    /\ zresult[3].kechengming = <<"L", "a", "b">>

(***************************************************************************)
(* parser.py: _parse_header_positions, _extract_english_record             *)
(***************************************************************************)
Course == <<"C", "o", "u", "r", "s", "e">>
Credit == <<"C", "r", "e", "d", "i", "t">>
Score == <<"S", "c", "o", "r", "e">>
Type == <<"T", "y", "p", "e">>
Semester == <<"S", "e", "m", "e", "s", "t", "e", "r">>

\* the labels find_indices looks for, in its order, and the keys it files them under
Labels == <<Course, Credit, Score, Type, Semester>>
LabelKeys == <<"course", "credit", "score", "type", "semester">>

\* "cell and label in cell"
HasLabel(cell, label) == cell # None /\ cell # <<>> /\ Contains(cell, label)

\* for idx in range(cursor, len(header)): the first index holding the label, or -1
RECURSIVE FindLabel(_, _, _)
FindLabel(header, label, idx) ==
    IF idx >= Len(header) THEN -1
    ELSE IF HasLabel(At(header, idx), label) THEN idx
    ELSE FindLabel(header, label, idx + 1)

\* find_indices: found is the list of indices so far; ok is FALSE on ValueError
RECURSIVE FindIndices(_, _, _)
FindIndices(header, cursor, found) ==
    IF Len(found) = Len(Labels) THEN [ok |-> TRUE, at |-> found]
    ELSE LET idx == FindLabel(header, Labels[Len(found) + 1], cursor)
         IN  IF idx = -1 THEN [ok |-> FALSE, at |-> found]
             ELSE FindIndices(header, idx + 1, Append(found, idx))

find_indices(header, start_idx) ==
    LET r == FindIndices(header, start_idx, <<>>)
    IN  [ok |-> r.ok,
         positions |-> [key \in {LabelKeys[k] : k \in DOMAIN r.at} |->
                          r.at[CHOOSE k \in DOMAIN r.at : LabelKeys[k] = key]]]

\* a variant whose second search starts over at the first column
RightStartAtZero(left_positions) == 0

\* where the search of the right map starts
RightStart(left_positions) == left_positions.semester + 1

_parse_header_positions(header) ==
    LET left == find_indices(header, 0)
    IN  IF ~left.ok THEN [ok |-> FALSE, left |-> left.positions, right |-> left.positions]
        ELSE LET right == find_indices(header, RightStart(left.positions))
             IN  [ok |-> right.ok, left |-> left.positions, right |-> right.positions]

\* _extract_english_record returns a record, not None
EnglishKeeps(row, pos) ==
    /\ pos.course < Len(row)
    /\ _clean_text(At(row, pos.course)) \notin {<<>>, Course}
    /\ _convert_english_semester(_clean_text(CellOrNone(row, pos.semester))) # None

_extract_english_record(row, pos) ==
    [kechengming |-> _clean_text(At(row, pos.course)),
     fenshu |-> CleanOrEmpty(row, pos.score),
     xuefen |-> CleanOrEmpty(row, pos.credit),
     xueshi |-> <<>>,
     xueshidanwei |-> <<>>,
     kechengleibie |-> CleanOrEmpty(row, pos.type),
     xueqi |-> _convert_english_semester(_clean_text(CellOrNone(row, pos.semester)))]

\* "".join(cell or "" for cell in row)
RECURSIVE JoinCells(_)
JoinCells(row) ==
    IF row = <<>> THEN <<>>
    ELSE (IF Head(row) = None THEN <<>> ELSE Head(row)) \o JoinCells(Tail(row))

IsHeaderRow(row) ==
    /\ Contains(JoinCells(row), Course)
    /\ Contains(JoinCells(row), Semester)

\* header_idx: the index of the first header row, or -1 (None)
HeaderIdx(tbl) ==
    LET S == {idx \in 0..(Len(tbl) - 1) : IsHeaderRow(At(tbl, idx))}
    IN  IF S = {} THEN -1 ELSE CHOOSE idx \in S : \A j \in S : idx <= j

(***************************************************************************)
(* The documents parse_english is run on                                   *)
(***************************************************************************)
MaxTables == 2

T1st == <<"1", "s", "t", " ">> \o YR2020
T2nd == <<"2", "n", "d", "\n">> \o YR2020
T3 == <<"3", " ">> \o YR2021
Algebra == <<"A", "l", "g">>
Optics == <<"O", "p", "t">>
CourseName == Course \o <<" ", "N", "a", "m", "e">>
CourseType == Course \o <<" ">> \o Type

HeadFull == <<Course, Credit, Score, Type, Semester, Course, Credit, Score, Type, Semester>>

\* a header row with the cell of index idx blanked
Blanked(header, idx) == [i \in DOMAIN header |-> IF i = idx + 1 THEN None ELSE header[i]]

\* a leading blank column; labels inside longer cells
HeadShifted ==
    <<None, CourseName, Credit, Score, CourseType, Semester,
      CourseName, Credit, Score, CourseType, Semester>>

\* a data row of the full width
DataRow(lname, lsem, rname, rsem) ==
    <<lname, <<"2">>, <<"9", "0">>, <<"R">>, lsem, rname, <<"3">>, None, <<"E">>, rsem>>

RowsA == <<DataRow(Algebra, T1st, Optics, T3), DataRow(Optics, T2nd, Course, T1st)>>
RowsB ==
    <<DataRow(None, T1st, Algebra, T2nd), SubSeq(DataRow(Optics, T3, Optics, T3), 1, 5),
      DataRow(Algebra, <<"x">>, Optics, None)>>

JunkRow == <<<<"N", "W", "P", "U">>, None>>

TableSet ==
    {<<HeadFull>> \o RowsA,
     <<HeadFull>> \o RowsB,
     <<HeadShifted>> \o RowsA,
     <<JunkRow, HeadFull>> \o RowsB,
     \* no Type label on the left, on the right
     <<Blanked(HeadFull, 3)>> \o RowsA,
     <<Blanked(HeadFull, 8)>> \o RowsB,
     \* the left block alone
     <<SubSeq(HeadFull, 1, 5)>> \o RowsA,
     \* the right block without its Semester
     <<SubSeq(HeadFull, 1, 9)>> \o RowsB,
     \* the two markers and nothing else
     <<<<Course, Semester>>>> \o RowsA,
     \* no header row
     RowsA,
     <<>>}

\* the tables of a document, cut into two pages
PagesSet ==
    {<<SubSeq(ts, 1, k), SubSeq(ts, k + 1, Len(ts))>> :
        <<ts, k>> \in {<<ts, k>> \in SeqsUpTo(TableSet, MaxTables) \X (0..MaxTables) :
                          k <= Len(ts)}}

(***************************************************************************)
(* parser.py: parse_english, table by table and row by row                 *)
(***************************************************************************)
EnInit ==
    /\ pages \in PagesSet
    /\ epage = 1
    /\ etable = 1
    /\ erow = 0
    /\ positions = <<>>
    /\ left_bucket = <<>>
    /\ right_bucket = <<>>
    /\ erecords = <<>>
    /\ epc = "table"
    /\ WriterIdle /\ CliIdle /\ TermIdle /\ ZhIdle

\* the table the loops are at
AtTable ==
    /\ epc = "table"
    /\ epage <= Len(pages)
    /\ etable <= Len(pages[epage])

CurTable == pages[epage][etable]

\* for page in pdf.pages: the tables of the page are done
EnNextPage ==
    /\ epc = "table"
    /\ epage <= Len(pages)
    /\ etable > Len(pages[epage])
    /\ epage' = epage + 1
    /\ etable' = 1
    /\ UNCHANGED <<pages, erow, positions, left_bucket, right_bucket, erecords, epc>>
    /\ UNCHANGED <<writerVars, cliVars, termVars, zhVars>>

\* if not table: continue
EnEmptyTable ==
    /\ AtTable
    /\ CurTable = <<>>
    /\ etable' = etable + 1
    /\ UNCHANGED <<pages, epage, erow, positions, left_bucket, right_bucket, erecords, epc>>
    /\ UNCHANGED <<writerVars, cliVars, termVars, zhVars>>

\* if header_idx is None or header is None: continue
EnNoHeader ==
    /\ AtTable
    /\ CurTable # <<>>
    /\ HeaderIdx(CurTable) = -1
    /\ etable' = etable + 1
    /\ UNCHANGED <<pages, epage, erow, positions, left_bucket, right_bucket, erecords, epc>>
    /\ UNCHANGED <<writerVars, cliVars, termVars, zhVars>>

\* except ValueError: continue
EnBadHeader ==
    /\ AtTable
    /\ CurTable # <<>>
    /\ HeaderIdx(CurTable) # -1
    /\ ~_parse_header_positions(At(CurTable, HeaderIdx(CurTable))).ok
    /\ etable' = etable + 1
    /\ UNCHANGED <<pages, epage, erow, positions, left_bucket, right_bucket, erecords, epc>>
    /\ UNCHANGED <<writerVars, cliVars, termVars, zhVars>>

\* left_positions, right_positions = _parse_header_positions(header)
EnHeaderOk ==
    /\ AtTable
    /\ CurTable # <<>>
    /\ HeaderIdx(CurTable) # -1
    /\ LET r == _parse_header_positions(At(CurTable, HeaderIdx(CurTable)))
       IN  /\ r.ok
           /\ positions' = <<r.left, r.right>>
    /\ erow' = HeaderIdx(CurTable) + 1
    /\ left_bucket' = <<>>
    /\ right_bucket' = <<>>
    /\ epc' = "rows"
    /\ UNCHANGED <<pages, epage, etable, erecords>>
    /\ UNCHANGED <<writerVars, cliVars, termVars, zhVars>>

\* for row in table[header_idx + 1:]: the two extractions
EnRow ==
    /\ epc = "rows"
    /\ erow < Len(CurTable)
    /\ LET row == At(CurTable, erow)
       IN  /\ left_bucket' = IF EnglishKeeps(row, positions[1])
                             THEN Append(left_bucket, _extract_english_record(row, positions[1]))
                             ELSE left_bucket
           /\ right_bucket' = IF EnglishKeeps(row, positions[2])
                              THEN Append(right_bucket, _extract_english_record(row, positions[2]))
                              ELSE right_bucket
    /\ erow' = erow + 1
    /\ UNCHANGED <<pages, epage, etable, positions, erecords, epc>>
    /\ UNCHANGED <<writerVars, cliVars, termVars, zhVars>>

\* records.extend(left_bucket); records.extend(right_bucket)
EnExtend ==
    /\ epc = "rows"
    /\ erow >= Len(CurTable)
    /\ erecords' = erecords \o left_bucket \o right_bucket
    /\ etable' = etable + 1
    /\ epc' = "table"
    /\ UNCHANGED <<pages, epage, erow, positions, left_bucket, right_bucket>>
    /\ UNCHANGED <<writerVars, cliVars, termVars, zhVars>>

\* return records
EnReturn ==
    /\ epc = "table"
    /\ epage > Len(pages)
    /\ epc' = "done"
    /\ UNCHANGED <<pages, epage, etable, erow, positions, left_bucket, right_bucket, erecords>>
    /\ UNCHANGED <<writerVars, cliVars, termVars, zhVars>>

EnNext ==
    \/ EnNextPage
    \/ EnEmptyTable
    \/ EnNoHeader
    \/ EnBadHeader
    \/ EnHeaderOk
    \/ EnRow
    \/ EnExtend
    \/ EnReturn

SpecEnglish == EnInit /\ [][EnNext]_vars

(***************************************************************************)
(* Properties of parse_english                                             *)
(***************************************************************************)
\* the least index >= from of a header cell holding the label, or -1
FirstWith(header, label, from) ==
    LET S == {i \in from..(Len(header) - 1) :
                 header[i + 1] # None /\ Contains(header[i + 1], label)}
    IN  IF from < 0 \/ S = {} THEN -1 ELSE CHOOSE i \in S : \A j \in S : i <= j

\* the five labels in sequence, each search starting right after the
\* previous found index; -1 from the first label that cannot be found
Chain(header, from) ==
    LET c1 == FirstWith(header, Course, from)
        c2 == FirstWith(header, Credit, IF c1 = -1 THEN -1 ELSE c1 + 1)
        c3 == FirstWith(header, Score, IF c2 = -1 THEN -1 ELSE c2 + 1)
        c4 == FirstWith(header, Type, IF c3 = -1 THEN -1 ELSE c3 + 1)
        c5 == FirstWith(header, Semester, IF c4 = -1 THEN -1 ELSE c4 + 1)
    IN  [course |-> c1, credit |-> c2, score |-> c3, type |-> c4, semester |-> c5]

LeftChain(header) == Chain(header, 0)
RightChain(header) == Chain(header, LeftChain(header).semester + 1)

HasMarkers(row) ==
    /\ \E i \in 1..(Len(JoinCells(row)) - 5) : SubSeq(JoinCells(row), i, i + 5) = Course
    /\ \E i \in 1..(Len(JoinCells(row)) - 7) : SubSeq(JoinCells(row), i, i + 7) = Semester

\* the table is skipped: no row with the two markers, or a label missing
\* from the left or the right map of its first such row
Skipped(tbl) ==
    \/ \A i \in DOMAIN tbl : ~HasMarkers(tbl[i])
    \/ LET h == tbl[CHOOSE i \in DOMAIN tbl :
                      HasMarkers(tbl[i]) /\ \A j \in 1..(i - 1) : ~HasMarkers(tbl[j])]
       IN  LeftChain(h).semester = -1 \/ RightChain(h).semester = -1

\* the records of the rows k.. of a table under one map
RECURSIVE SideRecords(_, _, _)
SideRecords(tbl, pos, k) ==
    IF k > Len(tbl) THEN <<>>
    ELSE (IF EnglishKeeps(tbl[k], pos) THEN <<_extract_english_record(tbl[k], pos)>>
          ELSE <<>>) \o SideRecords(tbl, pos, k + 1)

\* what a table adds to the result
Contribution(tbl) ==
    IF Skipped(tbl) THEN <<>>
    ELSE LET i == CHOOSE i \in DOMAIN tbl :
                      HasMarkers(tbl[i]) /\ \A j \in 1..(i - 1) : ~HasMarkers(tbl[j])
         IN  SideRecords(tbl, LeftChain(tbl[i]), i + 1)
                 \o SideRecords(tbl, RightChain(tbl[i]), i + 1)

\* the tables of the document in page and table order
AllTables == Concat(pages)

RECURSIVE Contributions(_)
Contributions(tbls) ==
    IF tbls = <<>> THEN <<>> ELSE Contribution(Head(tbls)) \o Contributions(Tail(tbls))

\* C10: a table with no header row, or whose header lacks one of the five
\* labels in sequence for the left map or for the right map (searched from
\* right after the left Semester), adds nothing and stops nothing: the
\* result is, table after table in page and table order, the left records
\* and then the right records of each table that is not skipped.
C10_SkippedTables ==
    epc = "done" => erecords = Contributions(AllTables)

\* a table without Type on the first page, a good table on the second
C10_Witness ==
    /\ epc = "done"
    /\ pages = <<<<<<Blanked(HeadFull, 3)>> \o RowsA>>, <<<<HeadFull>> \o RowsA>>>>
    /\ Skipped(pages[1][1])
    /\ Len(erecords) = 3
    /\ erecords[1].kechengming = Algebra
    /\ erecords[2].kechengming = Optics /\ erecords[2].xueqi = YR2020 \o <<"-", "2">>
    /\ erecords[3].kechengming = Optics /\ erecords[3].xueqi = YR2021 \o <<"-", "3">>

(***************************************************************************)
(* cli.py: main.  args says, for the template and for each transcript,     *)
(* whether the path was given and whether a file is there; templateGood    *)
(* says whether write_to_template succeeds on the template.                *)
(***************************************************************************)
PathStates == {"not given", "missing", "exists"}

CliInit ==
    /\ args \in [template : {"missing", "exists"}, templateGood : BOOLEAN,
                 chinese : PathStates, english : PathStates]
    /\ cpc = "start"
    /\ tasks = <<>>
    /\ ti = 0
    /\ outputs = [o \in {"chinese", "english"} |-> "untouched"]
    /\ cerr = "none"
    /\ WriterIdle /\ TermIdle /\ ZhIdle /\ EnIdle

\* if not template_path.exists(): raise FileNotFoundError
TemplateMissing ==
    /\ cpc = "start"
    /\ args.template = "missing"
    /\ cerr' = "FileNotFoundError: Template not found"
    /\ cpc' = "exit"
    /\ UNCHANGED <<args, tasks, ti, outputs>>
    /\ UNCHANGED <<writerVars, termVars, zhVars, enVars>>

\* tasks.append for --chinese, then for --english
BuildTasks ==
    /\ cpc = "start"
    /\ args.template = "exists"
    /\ tasks' = (IF args.chinese # "not given" THEN <<"chinese">> ELSE <<>>)
                \o (IF args.english # "not given" THEN <<"english">> ELSE <<>>)
    /\ cpc' = "tasks"
    /\ UNCHANGED <<args, ti, outputs, cerr>>
    /\ UNCHANGED <<writerVars, termVars, zhVars, enVars>>

\* if not tasks: raise SystemExit
NoTasks ==
    /\ cpc = "tasks"
    /\ tasks = <<>>
    /\ cerr' = "SystemExit: No transcripts provided"
    /\ cpc' = "exit"
    /\ UNCHANGED <<args, tasks, ti, outputs>>
    /\ UNCHANGED <<writerVars, termVars, zhVars, enVars>>

\* the loop over tasks is entered
EnterLoop ==
    /\ cpc = "tasks"
    /\ tasks # <<>>
    /\ ti' = 1
    /\ cpc' = "loop"
    /\ UNCHANGED <<args, tasks, outputs, cerr>>
    /\ UNCHANGED <<writerVars, termVars, zhVars, enVars>>

\* if not pdf_path.exists(): raise FileNotFoundError
TranscriptMissing ==
    /\ cpc = "loop"
    /\ ti <= Len(tasks)
    /\ args[tasks[ti]] = "missing"
    /\ cerr' = "FileNotFoundError: Transcript not found"
    /\ cpc' = "exit"
    /\ UNCHANGED <<args, tasks, ti, outputs>>
    /\ UNCHANGED <<writerVars, termVars, zhVars, enVars>>

\* records = parser_func(pdf_path)
ParseTranscript ==
    /\ cpc = "loop"
    /\ ti <= Len(tasks)
    /\ args[tasks[ti]] = "exists"
    /\ cpc' = "parsed"
    /\ UNCHANGED <<args, tasks, ti, outputs, cerr>>
    /\ UNCHANGED <<writerVars, termVars, zhVars, enVars>>

\* write_to_template(template_path, records, output_path) returns; print
WriteOutput ==
    /\ cpc = "parsed"
    /\ args.templateGood
    /\ outputs' = [outputs EXCEPT ![tasks[ti]] = "written"]
    /\ ti' = ti + 1
    /\ cpc' = "loop"
    /\ UNCHANGED <<args, tasks, cerr>>
    /\ UNCHANGED <<writerVars, termVars, zhVars, enVars>>

\* write_to_template raises after its copy of the template
WriteOutputRaise ==
    /\ cpc = "parsed"
    /\ ~args.templateGood
    /\ outputs' = [outputs EXCEPT ![tasks[ti]] = "template copy"]
    /\ cerr' = "ValueError"
    /\ cpc' = "exit"
    /\ UNCHANGED <<args, tasks, ti>>
    /\ UNCHANGED <<writerVars, termVars, zhVars, enVars>>

\* the loop ends; main returns
MainReturn ==
    /\ cpc = "loop"
    /\ ti > Len(tasks)
    /\ cpc' = "exit"
    /\ UNCHANGED <<args, tasks, ti, outputs, cerr>>
    /\ UNCHANGED <<writerVars, termVars, zhVars, enVars>>

CliNext ==
    \/ TemplateMissing
    \/ BuildTasks
    \/ NoTasks
    \/ EnterLoop
    \/ TranscriptMissing
    \/ ParseTranscript
    \/ WriteOutput
    \/ WriteOutputRaise
    \/ MainReturn

SpecCli == CliInit /\ [][CliNext]_vars

(***************************************************************************)
(* Properties of main                                                      *)
(***************************************************************************)
InputMissing ==
    \/ args.template = "missing"
    \/ args.chinese = "missing"
    \/ args.english = "missing"

\* C5: when the template or a given transcript does not exist, main aborts
\* before any processing: no transcript is parsed and no output file is
\* written, also when only one of two given transcripts is missing.
C5_AbortBeforeProcessing ==
    InputMissing =>
        /\ cpc # "parsed"
        /\ \A o \in DOMAIN outputs : outputs[o] = "untouched"
        /\ cpc = "exit" => cerr \in {"FileNotFoundError: Template not found",
                                     "FileNotFoundError: Transcript not found"}

\* what main does guarantee: nothing is written once a missing input is met
C5_MissingTemplate ==
    args.template = "missing" =>
        /\ cpc \in {"start", "exit"}
        /\ \A o \in DOMAIN outputs : outputs[o] = "untouched"

(***************************************************************************)
(* Properties of the template writer                                       *)
(***************************************************************************)
\* the positions at which _render_sheet has returned
RenderedPcs == {"rendered", "zip_loaded", "zip_write", "zip_closed", "done"}

TplSheet == ZipRead(template, SheetName)
TplPool == ZipRead(template, SharedName).si
OutSheet == ZipRead(outFile.entries, SheetName)
OutPool == ZipRead(outFile.entries, SharedName).si

Replaced == {SheetName, SharedName}

\* the ZipInfo fields the archive keeps per entry
MetaFields == {"date_time", "compress_type", "comment", "extra", "internal_attr",
               "external_attr", "create_system", "create_version", "extract_version"}

SameMeta(a, b) == \A f \in MetaFields : a[f] = b[f]

\* C1: when write_to_template succeeds, the output archive has the template's
\* entries in the template's order, under the same names; every entry other
\* than the worksheet and the shared strings has the template's bytes and
\* per-entry metadata.
C1_EntriesPreserved ==
    wpc = "done" =>
        /\ Len(outFile.entries) = Len(template)
        /\ \A i \in DOMAIN template :
              /\ outFile.entries[i].info.filename = template[i].info.filename
              /\ template[i].info.filename \notin Replaced =>
                    /\ outFile.entries[i].payload = template[i].payload
                    /\ SameMeta(outFile.entries[i].info, template[i].info)

NamesDistinct(archive) ==
    \A i, j \in DOMAIN archive :
        archive[i].info.filename = archive[j].info.filename => i = j

\* C1 holds of the templates whose entry names are pairwise distinct
C1_DistinctNames == NamesDistinct(template) => C1_EntriesPreserved

C1_DistinctNamesWitness == wpc = "done" /\ NamesDistinct(template) /\ Len(template) = 4

\* ---- C2
\* the record fields in the order the cells are rendered
FlatValues(recs) ==
    [n \in 1..(Len(recs) * Len(column_order)) |->
        LET k == ((n - 1) \div Len(column_order)) + 1
            c == ((n - 1) % Len(column_order)) + 1
            key == column_order[c]
        IN  IF key \in DOMAIN recs[k] /\ recs[k][key] # NoneVal THEN recs[k][key] ELSE ""]

\* the values to append: not empty, not in the template pool, first occurrences only
IsNewAt(flat, n) ==
    /\ flat[n] # ""
    /\ flat[n] \notin Range(TplPool)
    /\ \A m \in 1..(n - 1) : flat[m] # flat[n]

NewPositions(flat) == {n \in DOMAIN flat : IsNewAt(flat, n)}

\* the cell rendered for flat position n
CellAt(sheet, n) ==
    sheet.rows[((n - 1) \div Len(column_order)) + 2].cells[((n - 1) % Len(column_order)) + 1]

\* C2: the pool is append-only.  Every template string keeps its position; a
\* cell whose value is in the template pool carries an index of the template
\* pool that holds this value and nothing is appended for it; the values not
\* in the template pool are appended once each, in order of first occurrence,
\* from index Len(template pool) on.
C2_PoolAppendOnly ==
    wpc \in RenderedPcs =>
        LET pool == rendered.shared.si
            flat == FlatValues(records)
            new == NewPositions(flat)
        IN  /\ Len(pool) = Len(TplPool) + Cardinality(new)
            /\ \A i \in DOMAIN TplPool : pool[i] = TplPool[i]
            /\ \A n \in DOMAIN flat :
                  flat[n] \in Range(TplPool) /\ flat[n] # "" =>
                      /\ CellAt(rendered.sheet, n).v < Len(TplPool)
                      /\ TplPool[CellAt(rendered.sheet, n).v + 1] = flat[n]
            /\ \A n \in new :
                  LET rank == Cardinality({m \in new : m < n})
                  IN  /\ CellAt(rendered.sheet, n).v = Len(TplPool) + rank
                      /\ pool[Len(TplPool) + rank + 1] = flat[n]

\* a template pool with a repeated string, a reused value and two appended ones
C2_Witness ==
    /\ wpc = "done"
    /\ Len(TplPool) = 3
    /\ Len(OutPool) = 5
    /\ \E n \in DOMAIN FlatValues(records) : FlatValues(records)[n] = "x"

\* ---- C3
\* C3: a data cell has type "s" and a value node exactly when the record's
\* field is not empty, and then its index is a position of the rebuilt pool
\* holding the field's value; the cell of an empty, None or missing field has
\* its reference and style only.
C3_CellsMatchFields ==
    wpc \in RenderedPcs =>
        LET pool == rendered.shared.si
            rows == rendered.sheet.rows
        IN  \A k \in DOMAIN records : \A c \in DOMAIN column_order :
               LET key == column_order[c]
                   cell == rows[k + 1].cells[c]
                   empty == \/ key \notin DOMAIN records[k]
                            \/ records[k][key] = ""
                            \/ records[k][key] = NoneVal
               IN  /\ cell.r = <<col_letters[c], k + 1>>
                   /\ cell.s = column_styles[col_letters[c]]
                   /\ IF empty
                      THEN DOMAIN cell = {"r", "s"}
                      ELSE /\ DOMAIN cell = {"r", "s", "t", "v"}
                           /\ cell.t = "s"
                           /\ cell.v \in 0..(Len(pool) - 1)
                           /\ pool[cell.v + 1] = records[k][key]

\* a row with a missing key, a None, an empty and a non-empty field was rendered
C3_Witness ==
    /\ wpc = "done"
    /\ \E k \in DOMAIN records :
          /\ "xueshi" \notin DOMAIN records[k]
          /\ records[k]["xuefen"] = NoneVal
          /\ records[k]["kechengming"] = ""
          /\ records[k]["xueqi"] = "m"
          /\ "v" \in DOMAIN OutSheet.rows[k + 1].cells[7]
          /\ DOMAIN OutSheet.rows[k + 1].cells[4] = {"r", "s"}

\* ---- C4
\* the text a cell shows
CellText(cell, pool) == IF "v" \in DOMAIN cell THEN pool[cell.v + 1] ELSE ""

\* C4: the written worksheet has 1 + len(records) rows: the template's first
\* row, then one row per record in record order, numbered from 2; no data
\* row of the template is left.
C4_RowCount ==
    wpc = "done" =>
        LET rows == OutSheet.rows
            flat == FlatValues(records)
        IN  /\ Len(rows) = 1 + Len(records)
            /\ rows[1] = TplSheet.rows[1]
            /\ \A k \in DOMAIN records :
                  /\ rows[k + 1].r = k + 1
                  /\ Len(rows[k + 1].cells) = Len(column_order)
                  /\ \A c \in DOMAIN column_order :
                        CellText(rows[k + 1].cells[c], OutPool)
                            = flat[(k - 1) * Len(column_order) + c]
            /\ \A i \in 2..Len(TplSheet.rows) : TplSheet.rows[i] \notin Range(rows)

\* two records of equal content into a template that held two data rows
C4_Witness ==
    /\ wpc = "done"
    /\ Len(records) = 2
    /\ records[1] = records[2]
    /\ Len(TplSheet.rows) = 3
    /\ Len(OutSheet.rows) = 3

\* the empty record list: the header row alone
C4_WitnessEmpty == wpc = "done" /\ records = <<>> /\ Len(OutSheet.rows) = 1

\* ---- C6
Malformed(tpl) ==
    /\ SheetName \in ZipNames(tpl)
    /\ \/ ~ZipRead(tpl, SheetName).hasSheetData
       \/ ZipRead(tpl, SheetName).rows = <<>>

RawCopy == [exists |-> TRUE, entries |-> template, complete |-> TRUE]

\* the archive _replace_zip_entries is to produce, whole
Rewritten(file) ==
    /\ file.exists
    /\ file.complete
    /\ ZipNames(file.entries) = ZipNames(template)
    /\ ZipRead(file.entries, SheetName) = rendered.sheet
    /\ ZipRead(file.entries, SharedName) = rendered.shared

C6_WitnessNoSheetData ==
    /\ wpc = "failed"
    /\ werr = "ValueError: missing sheetData node"
    /\ outFile = RawCopy
====
